---- MODULE Spec2Model ----
(***************************************************************************)
(* Model of src/kr_statute.py: text normalisation (clean_text), reference  *)
(* extraction (get_relation_parts), article segmentation                   *)
(* (parse_html_by_article_sections) and the module-level embedding/search  *)
(* script.                                                                 *)
(*                                                                         *)
(* A text is a sequence of one-character strings.  The Korean characters   *)
(* of the patterns are written with ASCII stand-ins:                       *)
(*     "J" = U+C81C (je)   "C" = U+C870 (jo)   "U" = U+C758 (ui)           *)
(*     "H" = U+D56D (hang) "c" = a circled numeral U+2460..U+2473          *)
(*     "1","2" = decimal digits, "x" = any other letter.                   *)
(***************************************************************************)
EXTENDS Integers, Sequences, FiniteSets, TLC

VARIABLES
    soup,             \* the parsed document: its <p> tags in document order
    pc,               \* position of the script
    all_p_tags,       \* line 68
    i,                \* loop index of line 72
    article_indices,  \* line 69: sequence of <<index, article_id>>
    idx,              \* loop index of line 80
    spans,            \* the <<start_idx, end_idx>> of each iteration of line 80
    chunks,           \* line 78
    article_chunks,   \* line 106
    content_list,     \* line 111
    vector,           \* line 120
    index,            \* line 123: the rows added to the index
    I,                \* line 133: the positions returned for the query
    rank,             \* loop index of line 135
    reported,         \* the chunks printed by line 137, in rank order
    err,              \* the exception that ended the script, or "none"
    text,             \* input of clean_text
    cleaned,          \* clean_text(text)
    recleaned,        \* clean_text(cleaned)
    relations,        \* get_relation_parts(cleaned)
    tpc               \* position of the text run

pvars == <<soup, pc, all_p_tags, i, article_indices, idx, spans, chunks,
           article_chunks, content_list, vector, index, I, rank, reported, err>>
tvars == <<text, cleaned, recleaned, relations, tpc>>
vars == <<pvars, tvars>>

----------------------------------------------------------------------------
(* Bounds *)

MaxNodes == 4
MaxTextLen == 4

----------------------------------------------------------------------------
(* Characters *)

Je == "J"
Jo == "C"
Ui == "U"
Hang == "H"
Circled == "c"
Newline == "\n"
Space == " "

\* \d
Digit == {"1", "2"}
\* \s, and the characters str.strip() removes
Whitespace == {" ", "\n", "\t"}
\* [①-⑳]
CircledNumerals == {Circled}

\* the literal "<br />"
BrMarkup == <<"<", "b", "r", " ", "/", ">">>

----------------------------------------------------------------------------
(* Python string operations *)

IsPrefixAt(s, pat, k) ==
    /\ k + Len(pat) - 1 <= Len(s)
    /\ \A j \in 1..Len(pat) : s[k + j - 1] = pat[j]

RECURSIVE StrReplaceFrom(_, _, _, _)
StrReplaceFrom(s, old, new, k) ==
    IF k > Len(s) THEN <<>>
    ELSE IF IsPrefixAt(s, old, k)
         THEN new \o StrReplaceFrom(s, old, new, k + Len(old))
         ELSE <<s[k]>> \o StrReplaceFrom(s, old, new, k + 1)

\* s.replace(old, new), old non-empty
StrReplace(s, old, new) == StrReplaceFrom(s, old, new, 1)

RECURSIVE LStrip(_)
LStrip(s) ==
    IF s # <<>> /\ Head(s) \in Whitespace THEN LStrip(Tail(s)) ELSE s

RECURSIVE RStrip(_)
RStrip(s) ==
    IF s # <<>> /\ s[Len(s)] \in Whitespace
    THEN RStrip(SubSeq(s, 1, Len(s) - 1)) ELSE s

\* s.strip()
Strip(s) == RStrip(LStrip(s))

RECURSIVE StrJoin(_, _)
\* sep.join(parts)
StrJoin(sep, parts) ==
    IF parts = <<>> THEN <<>>
    ELSE IF Len(parts) = 1 THEN parts[1]
    ELSE parts[1] \o sep \o StrJoin(sep, Tail(parts))

\* a guard that keeps a list of one element whole
SliceFromOneUnlessSingle(seq) == IF Len(seq) > 1 THEN SubSeq(seq, 2, Len(seq)) ELSE seq

\* seq[1:]
SliceFromOne(seq) == SubSeq(seq, 2, Len(seq))

----------------------------------------------------------------------------
(* Regular expressions *)

RECURSIVE DigitsEnd(_, _)
\* the position after the longest run of \d starting at k (k when there is none)
DigitsEnd(s, k) ==
    IF k <= Len(s) /\ s[k] \in Digit THEN DigitsEnd(s, k + 1) ELSE k

\* X\d+Y at k, for the characters X and Y: the position after it, or 0
MatchNumbered(s, k, first, last) ==
    IF k <= Len(s) /\ s[k] = first
    THEN LET e == DigitsEnd(s, k + 1)
         IN  IF e > k + 1 /\ e <= Len(s) /\ s[e] = last THEN e + 1 ELSE 0
    ELSE 0

\* (?:U\d+)? at k: the position after it
OptSubArticle(s, k) ==
    IF k <= Len(s) /\ s[k] = Ui
    THEN LET e == DigitsEnd(s, k + 1) IN IF e > k + 1 THEN e ELSE k
    ELSE k

\* (?:J\d+H)? at k: the position after it
OptParagraph(s, k) ==
    LET e == MatchNumbered(s, k, Je, Hang) IN IF e = 0 THEN k ELSE e

\* J\d+C(?:U\d+)? at k: the position after the match, or 0
MatchArticleLabel(s, k) ==
    LET e == MatchNumbered(s, k, Je, Jo)
    IN  IF e = 0 THEN 0 ELSE OptSubArticle(s, e)

\* J\d+C(?:U\d+)?(?:J\d+H)? at k: the position after the match, or 0
MatchRelationPart(s, k) ==
    LET e == MatchArticleLabel(s, k)
    IN  IF e = 0 THEN 0 ELSE OptParagraph(s, e)

RECURSIVE FindAllFrom(_, _)
\* relation_part_pattern.findall, scanning from k
FindAllFrom(s, k) ==
    IF k > Len(s) THEN <<>>
    ELSE LET e == MatchRelationPart(s, k)
         IN  IF e = 0 THEN FindAllFrom(s, k + 1)
             ELSE <<SubSeq(s, k, e - 1)>> \o FindAllFrom(s, e)

----------------------------------------------------------------------------
(* clean_text, get_relation_parts *)

\* a character class that matches no circled numeral
RemoveCircledNothing(s) == s

\* re.sub(r"[\u2460-\u2473]", "", s)
RemoveCircled(s) == SelectSeq(s, LAMBDA ch : ch \notin CircledNumerals)

RECURSIVE CollapseWhitespace(_)
\* re.sub(r"\s+", " ", s)
CollapseWhitespace(s) ==
    IF s = <<>> THEN <<>>
    ELSE IF Head(s) \in Whitespace
         THEN <<Space>> \o CollapseWhitespace(LStrip(s))
         ELSE <<Head(s)>> \o CollapseWhitespace(Tail(s))

\* the whitespace compressed before the circled numerals are removed
clean_text_compress_first(s) ==
    RemoveCircled(CollapseWhitespace(StrReplace(s, <<Newline>>, <<Space>>)))

clean_text(s) ==
    CollapseWhitespace(RemoveCircled(StrReplace(s, <<Newline>>, <<Space>>)))

get_relation_parts(s) == FindAllFrom(s, 1)

----------------------------------------------------------------------------
(* Tags *)

\* a tag: its text strings in document order and its attributes
Tag(strs, attrs) == [strings |-> strs, attrs |-> attrs]

\* tag.get(key, default)
TagGet(tag, key, default) ==
    IF \E a \in tag.attrs : a[1] = key
    THEN (CHOOSE a \in tag.attrs : a[1] = key)[2]
    ELSE default

\* the strings get_text(strip=True) joins: each stripped, the empty ones skipped
StrippedStrings(tag) ==
    SelectSeq([k \in 1..Len(tag.strings) |-> Strip(tag.strings[k])],
              LAMBDA s : s # <<>>)

\* tag.get_text(separator, strip=True)
GetText(tag, separator) == StrJoin(separator, StrippedStrings(tag))

\* line 87
TagContent(tag) == StrReplace(GetText(tag, <<Space>>), BrMarkup, <<>>)

\* tag.get("id"), without the default
TagIdNoDefault(tag) == TagGet(tag, "id", "None")

\* line 90
TagId(tag) == TagGet(tag, "id", "unknown")

\* lines 73-74
IsArticleStart(tag) == MatchArticleLabel(GetText(tag, <<>>), 1) # 0

\* line 75
ArticleIdOf(tag) ==
    LET t == GetText(tag, <<>>) IN SubSeq(t, 1, MatchArticleLabel(t, 1) - 1)

----------------------------------------------------------------------------
(* parse_html_by_article_sections: one iteration of the loop of line 80 *)

\* seq[k] for a Python index k >= 0
At(seq, k) == seq[k + 1]

\* every span running to the end of the document
EndIdxToEnd(indices, k, n) == n

\* the bound of the test off by one: the last two spans run to the end
EndIdxOffByOne(indices, k, n) ==
    IF k + 2 < Len(indices) THEN At(indices, k + 1)[1] ELSE n

\* line 81
EndIdx(indices, k, n) ==
    IF k + 1 < Len(indices) THEN At(indices, k + 1)[1] ELSE n

\* all_p_tags[start:end]
Slice(seq, start, end) == SubSeq(seq, start + 1, end)

RECURSIVE RelationsOf(_)
\* lines 85-91: the running relation_parts over the tags of the span
RelationsOf(tags) ==
    IF tags = <<>> THEN <<>>
    ELSE get_relation_parts(clean_text(TagContent(Head(tags))))
             \o RelationsOf(Tail(tags))

\* the parts joined with a space
JoinContentWithSpace(content_parts) == StrJoin(<<Space>>, content_parts)

\* line 98
JoinContent(content_parts) == StrJoin(<<Newline>>, content_parts)

\* lines 82-101
BuildArticleChunk(tags, indices, k) ==
    LET start_idx == At(indices, k)[1]
        end_idx == EndIdx(indices, k, Len(tags))
        span == Slice(tags, start_idx, end_idx)
    IN  [article_id |-> At(indices, k)[2],
         start_id |-> TagId(At(tags, start_idx)),
         end_id |-> TagId(At(tags, end_idx - 1)),
         content |-> JoinContent([j \in 1..Len(span) |-> TagContent(span[j])]),
         paragraph_ids |-> [j \in 1..Len(span) |-> TagId(span[j])],
         relation_parts |-> SliceFromOne(RelationsOf(span))]

----------------------------------------------------------------------------
(* Collaborators *)

top_k == 3

\* model.encode(texts, normalize_embeddings=True): one row per text, in order.
\* For no text at all the library returns an array without rows whose number
\* of dimensions the script does not fix.
EncodeResults(texts) ==
    IF texts = <<>>
    THEN {[ndim |-> d, rows |-> <<>>] : d \in {1, 2}}
    ELSE {[ndim |-> 2, rows |-> [j \in 1..Len(texts) |-> [embedding_of |-> texts[j]]]]}

Min(a, b) == IF a < b THEN a ELSE b

\* index.search(query_vector, k) over n rows: the positions of the best
\* Min(n, k) rows in some order of score, then -1 for every rank without a hit
SearchResults(n, k) ==
    {r \in [1..k -> -1..(n - 1)] :
        /\ \A j \in 1..k : (r[j] = -1) <=> (j > Min(n, k))
        /\ \A j1, j2 \in 1..Min(n, k) : j1 # j2 => r[j1] # r[j2]}

\* seq[k] for any Python index k: negative indices count from the end
PyIndexable(seq, k) == -Len(seq) <= k /\ k < Len(seq)
PyIndex(seq, k) == IF k >= 0 THEN seq[k + 1] ELSE seq[Len(seq) + k + 1]

----------------------------------------------------------------------------
(* Inputs *)

Str1 == <<Je, "1", Jo>>
Str2 == <<Je, "2", Jo, Ui, "1", Space, "x", Space, Je, "1", Jo, Je, "2", Hang>>
Str3 == <<Space, Circled, "x", Space, Je, "2", Jo, Space>>
Str5 == <<"x", Newline, "x">>
Str7 == <<Je, "1", Jo, Je, "2", Hang, Space, "x">>
Str8 == <<"x">> \o BrMarkup \o <<"x">>

NodePool ==
    { Tag(<<Str1>>, {<<"id", "p1">>}),
      Tag(<<Str2>>, {<<"id", "p2">>}),
      Tag(<<Str3>>, {}),
      Tag(<<<<Je>>, <<Space>>, <<"1", Jo>>>>, {<<"id", "p3">>}),
      Tag(<<Str5>>, {<<"id", "p2">>}),
      Tag(<<>>, {}),
      Tag(<<Str7>>, {<<"id", "p4">>}),
      Tag(<<Str8>>, {<<"id", "p5">>}) }

Documents == UNION {[1..n -> NodePool] : n \in 0..MaxNodes}

TextAlphabet == {Je, "1", Jo, Ui, Space, Newline, "\t", Circled}

Texts == UNION {[1..n -> TextAlphabet] : n \in 0..MaxTextLen}

----------------------------------------------------------------------------
(* The script *)

NoVector == [ndim |-> 0, rows |-> <<>>]

TextIdle ==
    /\ text = <<>>
    /\ cleaned = <<>>
    /\ recleaned = <<>>
    /\ relations = <<>>
    /\ tpc = "idle"

ScriptStart ==
    /\ pc = "find_all"
    /\ all_p_tags = <<>>
    /\ i = 0
    /\ article_indices = <<>>
    /\ idx = 0
    /\ spans = <<>>
    /\ chunks = <<>>
    /\ article_chunks = <<>>
    /\ content_list = <<>>
    /\ vector = NoVector
    /\ index = <<>>
    /\ I = <<>>
    /\ rank = 0
    /\ reported = <<>>
    /\ err = "none"

Init ==
    /\ soup \in Documents
    /\ ScriptStart
    /\ TextIdle

\* line 68
FindAll ==
    /\ pc = "find_all"
    /\ all_p_tags' = soup
    /\ article_indices' = <<>>
    /\ i' = 0
    /\ pc' = "scan"
    /\ UNCHANGED <<soup, idx, spans, chunks, article_chunks, content_list,
                   vector, index, I, rank, reported, err, tvars>>

\* lines 72-76, one tag
ScanTag ==
    /\ pc = "scan"
    /\ i < Len(all_p_tags)
    /\ article_indices' =
           IF IsArticleStart(At(all_p_tags, i))
           THEN Append(article_indices, <<i, ArticleIdOf(At(all_p_tags, i))>>)
           ELSE article_indices
    /\ i' = i + 1
    /\ UNCHANGED <<soup, pc, all_p_tags, idx, spans, chunks, article_chunks,
                   content_list, vector, index, I, rank, reported, err, tvars>>

\* line 78
ScanDone ==
    /\ pc = "scan"
    /\ i = Len(all_p_tags)
    /\ chunks' = <<>>
    /\ idx' = 0
    /\ pc' = "build"
    /\ UNCHANGED <<soup, all_p_tags, i, article_indices, spans, article_chunks,
                   content_list, vector, index, I, rank, reported, err, tvars>>

\* lines 80-101, one marker
BuildChunk ==
    /\ pc = "build"
    /\ idx < Len(article_indices)
    /\ spans' = Append(spans, <<At(article_indices, idx)[1],
                                EndIdx(article_indices, idx, Len(all_p_tags))>>)
    /\ chunks' = Append(chunks, BuildArticleChunk(all_p_tags, article_indices, idx))
    /\ idx' = idx + 1
    /\ UNCHANGED <<soup, pc, all_p_tags, i, article_indices, article_chunks,
                   content_list, vector, index, I, rank, reported, err, tvars>>

\* lines 103, 106
Return ==
    /\ pc = "build"
    /\ idx = Len(article_indices)
    /\ article_chunks' = chunks
    /\ pc' = "collect"
    /\ UNCHANGED <<soup, all_p_tags, i, article_indices, idx, spans, chunks,
                   content_list, vector, index, I, rank, reported, err, tvars>>

\* lines 111-117
Collect ==
    /\ pc = "collect"
    /\ content_list' = [k \in 1..Len(article_chunks) |-> article_chunks[k].content]
    /\ pc' = "encode"
    /\ UNCHANGED <<soup, all_p_tags, i, article_indices, idx, spans, chunks,
                   article_chunks, vector, index, I, rank, reported, err, tvars>>

\* line 120
Encode ==
    /\ pc = "encode"
    /\ vector' \in EncodeResults(content_list)
    /\ pc' = "new_index"
    /\ UNCHANGED <<soup, all_p_tags, i, article_indices, idx, spans, chunks,
                   article_chunks, content_list, index, I, rank, reported, err,
                   tvars>>

\* lines 122-123: vector.shape[1] raises IndexError on a one-dimensional array
NewIndex ==
    /\ pc = "new_index"
    /\ IF vector.ndim < 2
       THEN /\ err' = "IndexError"
            /\ pc' = "failed"
            /\ UNCHANGED index
       ELSE /\ index' = <<>>
            /\ pc' = "add"
            /\ UNCHANGED err
    /\ UNCHANGED <<soup, all_p_tags, i, article_indices, idx, spans, chunks,
                   article_chunks, content_list, vector, I, rank, reported,
                   tvars>>

\* line 124
IndexAdd ==
    /\ pc = "add"
    /\ index' = index \o vector.rows
    /\ pc' = "search"
    /\ UNCHANGED <<soup, all_p_tags, i, article_indices, idx, spans, chunks,
                   article_chunks, content_list, vector, I, rank, reported, err,
                   tvars>>

\* lines 128-133
Search ==
    /\ pc = "search"
    /\ I' \in SearchResults(Len(index), top_k)
    /\ rank' = 0
    /\ pc' = "report"
    /\ UNCHANGED <<soup, all_p_tags, i, article_indices, idx, spans, chunks,
                   article_chunks, content_list, vector, index, reported, err,
                   tvars>>

\* lines 135-139, one rank
Report ==
    /\ pc = "report"
    /\ rank < top_k
    /\ IF PyIndexable(article_chunks, At(I, rank))
       THEN /\ reported' = Append(reported, PyIndex(article_chunks, At(I, rank)))
            /\ rank' = rank + 1
            /\ UNCHANGED <<pc, err>>
       ELSE /\ err' = "IndexError"
            /\ pc' = "failed"
            /\ UNCHANGED <<rank, reported>>
    /\ UNCHANGED <<soup, all_p_tags, i, article_indices, idx, spans, chunks,
                   article_chunks, content_list, vector, index, I, tvars>>

\* the end of the loop of line 135
Finish ==
    /\ pc = "report"
    /\ rank = top_k
    /\ pc' = "done"
    /\ UNCHANGED <<soup, all_p_tags, i, article_indices, idx, spans, chunks,
                   article_chunks, content_list, vector, index, I, rank,
                   reported, err, tvars>>

Next ==
    \/ FindAll
    \/ ScanTag
    \/ ScanDone
    \/ BuildChunk
    \/ Return
    \/ Collect
    \/ Encode
    \/ NewIndex
    \/ IndexAdd
    \/ Search
    \/ Report
    \/ Finish

Spec == Init /\ [][Next]_vars

----------------------------------------------------------------------------
(* clean_text and get_relation_parts on their own *)

TextInit ==
    /\ soup = <<>>
    /\ ScriptStart
    /\ text \in Texts
    /\ cleaned = <<>>
    /\ recleaned = <<>>
    /\ relations = <<>>
    /\ tpc = "raw"

\* lines 34-37
Clean ==
    /\ tpc = "raw"
    /\ cleaned' = clean_text(text)
    /\ tpc' = "cleaned"
    /\ UNCHANGED <<text, recleaned, relations, pvars>>

\* lines 49-54, on the normalised text
Extract ==
    /\ tpc = "cleaned"
    /\ relations' = get_relation_parts(cleaned)
    /\ tpc' = "extracted"
    /\ UNCHANGED <<text, cleaned, recleaned, pvars>>

\* lines 34-37, on the normalised text
CleanAgain ==
    /\ tpc = "extracted"
    /\ recleaned' = clean_text(cleaned)
    /\ tpc' = "recleaned"
    /\ UNCHANGED <<text, cleaned, relations, pvars>>

TextNext ==
    \/ Clean
    \/ Extract
    \/ CleanAgain

TextSpec == TextInit /\ [][TextNext]_vars

----------------------------------------------------------------------------
(* What the claims speak of, stated from the document alone *)

\* parse_html_by_article_sections has just returned (line 106)
Returned == pc = "collect"

\* the loop of line 80 is running or has just ended
Building == pc = "build"

\* the positions (from 0) of the article-start tags of the document, ascending
Markers ==
    SelectSeq([k \in 1..Len(soup) |-> k - 1],
              LAMBDA k : MatchArticleLabel(GetText(At(soup, k), <<>>), 1) # 0)

\* the tags of the n-th iteration's span
SpanTags(n) == Slice(soup, spans[n][1], spans[n][2])

\* the identifier a tag contributes
ExpectedId(tag) ==
    IF \E a \in tag.attrs : a[1] = "id"
    THEN (CHOOSE a \in tag.attrs : a[1] = "id")[2]
    ELSE "unknown"

RECURSIVE Flatten(_)
Flatten(seqs) == IF seqs = <<>> THEN <<>> ELSE Head(seqs) \o Flatten(Tail(seqs))

\* every reference-pattern match of the n-th chunk's tags, in discovery order
AllMatches(n) ==
    Flatten([j \in 1..Len(SpanTags(n)) |->
                FindAllFrom(clean_text(TagContent(SpanTags(n)[j])), 1)])

RECURSIVE SplitLines(_)
\* s.split("\n")
SplitLines(s) ==
    IF \E k \in 1..Len(s) : s[k] = Newline
    THEN LET k == CHOOSE k \in 1..Len(s) :
                      s[k] = Newline /\ \A j \in 1..(k - 1) : s[j] # Newline
         IN  <<SubSeq(s, 1, k - 1)>> \o SplitLines(SubSeq(s, k + 1, Len(s)))
    ELSE <<s>>

HasNewline(s) == \E k \in 1..Len(s) : s[k] = Newline

----------------------------------------------------------------------------
(* C1: a document with N article-start tags yields exactly N chunks in      *)
(* marker order; the k-th chunk covers exactly the tags from the k-th      *)
(* marker up to, excluding, the next marker (the end for the last one), so *)
(* the spans are non-empty, disjoint, contiguous, and with the dropped     *)
(* prefix make up the whole document; N = 0 yields no chunk.               *)
C1_SpansPartition ==
    Returned =>
        LET ms == Markers
            N == Len(ms)
            first(n) == ms[n]
            last(n) == IF n < N THEN ms[n + 1] ELSE Len(soup)
        IN  /\ Len(article_chunks) = N
            /\ Len(spans) = N
            /\ N = 0 => article_chunks = <<>>
            /\ \A n \in 1..N :
                  /\ spans[n] = <<first(n), last(n)>>
                  /\ spans[n][1] < spans[n][2]
                  /\ n < N => spans[n][2] = spans[n + 1][1]
                  /\ n = N => spans[n][2] = Len(soup)
                  /\ article_chunks[n].article_id = ArticleIdOf(At(soup, first(n)))
                  /\ article_chunks[n].start_id = ExpectedId(At(soup, first(n)))
                  /\ article_chunks[n].end_id = ExpectedId(At(soup, last(n) - 1))
                  /\ Len(article_chunks[n].paragraph_ids) = last(n) - first(n)
                  /\ \A j \in 1..(last(n) - first(n)) :
                        article_chunks[n].paragraph_ids[j] =
                            ExpectedId(At(soup, first(n) + j - 1))
            /\ \A k \in 0..(Len(soup) - 1) :
                  Cardinality({n \in 1..Len(spans) :
                                  spans[n][1] <= k /\ k < spans[n][2]})
                      = IF N > 0 /\ ms[1] <= k THEN 1 ELSE 0

C1_Witness ==
    /\ Returned
    /\ Len(article_chunks) = 2
    /\ spans[1][1] > 0
    /\ Len(soup) = 3

----------------------------------------------------------------------------
(* C2: relation_parts is the sequence of reference matches of the chunk's  *)
(* tags without the first match, and that first match is the chunk's own   *)
(* label (its article_id), so only the self-label is left out.             *)
C2_FirstMatchIsOwnLabel ==
    Building => \A n \in 1..Len(chunks) :
        /\ chunks[n].relation_parts = SliceFromOne(AllMatches(n))
        /\ AllMatches(n) # <<>> => Head(AllMatches(n)) = chunks[n].article_id

----------------------------------------------------------------------------
(* C3: a chunk whose tags yield no or exactly one reference match is built *)
(* without an error and has an empty relation_parts.                       *)
C3_NoUnderflow ==
    Building =>
        /\ err = "none"
        /\ Len(chunks) = idx
        /\ \A n \in 1..Len(chunks) :
              Len(AllMatches(n)) <= 1 => chunks[n].relation_parts = <<>>

C3_Witness ==
    /\ Building
    /\ \E n \in 1..Len(chunks) : Len(AllMatches(n)) = 0
    /\ \E n \in 1..Len(chunks) : Len(AllMatches(n)) = 1

----------------------------------------------------------------------------
(* C4 as claimed: for every chunk the fragments of content split at the    *)
(* newline are as many as paragraph_ids and as the tags of the span, the   *)
(* j-th fragment being the text of the j-th tag, whatever the text.        *)
C4_FragmentsParallel ==
    Building => \A n \in 1..Len(chunks) :
        LET frags == SplitLines(chunks[n].content)
        IN  /\ Len(frags) = Len(chunks[n].paragraph_ids)
            /\ Len(frags) = Len(SpanTags(n))
            /\ \A j \in 1..Len(frags) :
                  /\ frags[j] = TagContent(SpanTags(n)[j])
                  /\ chunks[n].paragraph_ids[j] = ExpectedId(SpanTags(n)[j])

NoNewlineInSpan(n) ==
    \A j \in 1..Len(SpanTags(n)) : ~HasNewline(TagContent(SpanTags(n)[j]))

(* C4 as amended: the same, for every chunk none of whose tags has a text  *)
(* containing a newline (empty texts included).                            *)
C4_FragmentsParallelNoNewline ==
    Building => \A n \in 1..Len(chunks) :
        NoNewlineInSpan(n) =>
            LET frags == SplitLines(chunks[n].content)
            IN  /\ Len(frags) = Len(chunks[n].paragraph_ids)
                /\ Len(frags) = Len(SpanTags(n))
                /\ \A j \in 1..Len(frags) :
                      /\ frags[j] = TagContent(SpanTags(n)[j])
                      /\ chunks[n].paragraph_ids[j] = ExpectedId(SpanTags(n)[j])

C4_Witness ==
    Building /\ \E n \in 1..Len(chunks) :
        /\ NoNewlineInSpan(n)
        /\ Len(SpanTags(n)) = 3
        /\ \E j \in 1..2 : TagContent(SpanTags(n)[j]) = <<>>
        /\ TagContent(SpanTags(n)[3]) # <<>>

----------------------------------------------------------------------------
(* C5: the paragraph_ids of the chunks, read chunk after chunk, are the    *)
(* identifiers of the document's tags from the first marker on, in order,  *)
(* each tag once, "unknown" standing for a tag without identifier.         *)
C5_IdsRoundTrip ==
    Returned =>
        LET ids == Flatten([n \in 1..Len(article_chunks) |->
                               article_chunks[n].paragraph_ids])
            ms == Markers
        IN  IF ms = <<>> THEN ids = <<>>
            ELSE /\ Len(ids) = Len(soup) - ms[1]
                 /\ \A j \in 1..Len(ids) :
                       ids[j] = ExpectedId(At(soup, ms[1] + j - 1))

C5_Witness ==
    /\ Returned
    /\ Markers # <<>>
    /\ Markers[1] > 0
    /\ \E n \in 1..Len(article_chunks) :
          \E j \in 1..Len(article_chunks[n].paragraph_ids) :
              /\ article_chunks[n].paragraph_ids[j] = "unknown"
              /\ SpanTags(n)[j].attrs = {}

----------------------------------------------------------------------------
(* C6: clean_text is idempotent: clean_text(clean_text(s)) = clean_text(s) *)
(* for every text s.                                                       *)
C6_CleanIdempotent == tpc = "recleaned" => recleaned = cleaned

C6_Witness ==
    /\ tpc = "recleaned"
    /\ cleaned # text
    /\ \E k \in 1..Len(text) : text[k] = Newline
    /\ \E k \in 1..Len(text) : text[k] = Circled
    /\ \E k \in 1..(Len(text) - 1) : text[k] \in Whitespace /\ text[k + 1] \in Whitespace

----------------------------------------------------------------------------
(* C7: the output of clean_text holds no circled numeral, no newline and   *)
(* no two whitespace characters in a row, and no element returned by       *)
(* get_relation_parts on it holds a circled numeral.                       *)
C7_NoCircledNumerals ==
    /\ tpc \in {"cleaned", "extracted", "recleaned"} =>
          /\ \A k \in 1..Len(cleaned) :
                cleaned[k] \notin CircledNumerals /\ cleaned[k] # Newline
          /\ \A k \in 1..(Len(cleaned) - 1) :
                ~(cleaned[k] \in Whitespace /\ cleaned[k + 1] \in Whitespace)
    /\ tpc \in {"extracted", "recleaned"} =>
          \A r \in 1..Len(relations) :
              /\ relations[r] # <<>>
              /\ \A k \in 1..Len(relations[r]) : relations[r][k] \notin CircledNumerals

C7_Witness ==
    /\ tpc = "extracted"
    /\ \E k \in 1..Len(text) : text[k] = Circled
    /\ relations # <<>>
    /\ FindAllFrom(text, 1) = <<>>

----------------------------------------------------------------------------
(* C8: with no article-start marker the corpus is empty and the script     *)
(* stops at the embedding step on an "empty corpus" condition: it goes on  *)
(* neither to building the index nor to the search.                        *)
C8_EmptyCorpusStops ==
    (content_list = <<>> /\ pc \notin {"find_all", "scan", "build", "collect", "encode"})
        => (pc = "failed" /\ err = "EmptyCorpus")

----------------------------------------------------------------------------
(* C9: the i-th row of the index is the embedding of the i-th chunk's      *)
(* content, the chunk reported for a rank is the chunk at the position the *)
(* index returned for it, and a rank without a hit (position -1) is never  *)
(* reported as a chunk of the corpus.                                      *)
C9_ReportedIsReturned ==
    /\ pc \in {"search", "report", "done"} =>
          /\ Len(index) = Len(article_chunks)
          /\ \A k \in 1..Len(index) :
                index[k].embedding_of = article_chunks[k].content
    /\ \A r \in 1..Len(reported) :
          /\ I[r] # -1
          /\ reported[r] = article_chunks[I[r] + 1]

----------------------------------------------------------------------------
(* C10: the two-pass segmentation yields the chunk sequence of a single    *)
(* scan that starts outside any article, drops tags while outside, opens a *)
(* chunk at every boundary tag (closing the open one) and appends every    *)
(* other tag to the open chunk.                                            *)

\* the chunk of an article whose label and tags the scan has gathered
CloseArticle(label, tags) ==
    [article_id |-> label,
     start_id |-> ExpectedId(tags[1]),
     end_id |-> ExpectedId(tags[Len(tags)]),
     content |-> StrJoin(<<Newline>>, [j \in 1..Len(tags) |-> TagContent(tags[j])]),
     paragraph_ids |-> [j \in 1..Len(tags) |-> ExpectedId(tags[j])],
     relation_parts |->
         LET found == Flatten([j \in 1..Len(tags) |->
                                  FindAllFrom(clean_text(TagContent(tags[j])), 1)])
         IN  IF found = <<>> THEN <<>> ELSE Tail(found)]

RECURSIVE TwoStateScan(_, _, _, _, _)
\* rest: the tags still to read; inside: whether an article is open, with
\* its label and tags; done: the chunks closed so far
TwoStateScan(rest, inside, label, open, done) ==
    IF rest = <<>>
    THEN IF inside THEN Append(done, CloseArticle(label, open)) ELSE done
    ELSE IF IsArticleStart(Head(rest))
         THEN TwoStateScan(Tail(rest), TRUE, ArticleIdOf(Head(rest)), <<Head(rest)>>,
                           IF inside THEN Append(done, CloseArticle(label, open))
                           ELSE done)
         ELSE IF inside
              THEN TwoStateScan(Tail(rest), TRUE, label, Append(open, Head(rest)), done)
              ELSE TwoStateScan(Tail(rest), FALSE, label, open, done)

\* C10: what parse_html_by_article_sections returns is what the scan builds
C10_TwoPassIsScan ==
    Returned => article_chunks = TwoStateScan(soup, FALSE, <<>>, <<>>, <<>>)

C10_Witness ==
    /\ Returned
    /\ Len(soup) = 3
    /\ ~IsArticleStart(soup[1])
    /\ IsArticleStart(soup[2])
    /\ IsArticleStart(soup[3])
    /\ Len(article_chunks) = 2

====
